---- MODULE Spec2Model ----
(***************************************************************************)
(* A state-machine model of GPS/find_latent_representation.py:             *)
(* run_find_latent_representation and the Latent_Representation_Finder it  *)
(* drives.  A dataset is the sequence of its cells; a cell is named by its *)
(* position in the input file and carries the value of the annotation      *)
(* column.  A latent matrix is the sequence of its rows; a row records     *)
(* which path computed it, on which finder, for which cell.                *)
(***************************************************************************)
EXTENDS Integers, Sequences, FiniteSets, TLC

VARIABLES
    pc,                 \* position in run_find_latent_representation
    args,               \* the configuration object (shared, mutable)
    entry_args,         \* the configuration as it was when the run was entered
    num_features,       \* local num_features (line 133)
    input,              \* annotation column of the dataset at input_hdf5_path
    adata,              \* local adata
    label,              \* local label
    latent_rep,         \* the current Latent_Representation_Finder
    latent_GVAE,        \* local latent_GVAE
    latent_PCA,         \* local latent_PCA
    groups,             \* values of the for loop not yet visited (line 175)
    ct,                 \* loop variable ct
    adata_part,         \* local adata_part (its obs_names)
    latent_GVAE_part,   \* data frame of the current group
    latent_PCA_part,    \* data frame of the current group
    GVAE_all,           \* data frame accumulated over the groups
    PCA_all,            \* data frame accumulated over the groups
    outfile,            \* the file at output_hdf5_path
    calls,              \* history: the finder constructions and method calls
    failedAt            \* history: where the exception that ended the run rose

vars == <<pc, args, entry_args, num_features, input, adata, label, latent_rep,
          latent_GVAE, latent_PCA, groups, ct, adata_part, latent_GVAE_part,
          latent_PCA_part, GVAE_all, PCA_all, outfile, calls, failedAt>>

-----------------------------------------------------------------------------
(* Bounds and inputs *)

MaxBlocks == 3

\* num >= 30 on line 146
MinCells == 30

NA == "NA"
Classes == <<"a", "b">>            \* the annotation values, in sorted order
Annotations == {NA, "a", "b"}
BlockSizes == {1, 29, 30}
\* a dataset is made of runs of equally annotated cells: single cells of
\* every kind, and runs just below and at the threshold
Blocks == {b \in [ann : Annotations, size : BlockSizes] :
              /\ b.ann = NA => b.size = 1
              /\ b.ann = "b" => b.size # 29}
BlockSeqs == UNION {[1..n -> Blocks] : n \in 1..MaxBlocks}

NCompsValues == {31}
FeatCellValues == {40}
GeneCounts == {50}

Range(s) == {s[k] : k \in DOMAIN s}
Min(a, b) == IF a <= b THEN a ELSE b

RECURSIVE Expand(_)
Expand(bs) ==
    IF bs = <<>> THEN <<>>
    ELSE [k \in 1..bs[1].size |-> bs[1].ann] \o Expand(Tail(bs))

NoFrame == [index |-> <<>>, vals |-> <<>>]
NoFinder == [who |-> "none", obs_names |-> <<>>, n_top_genes |-> 0, n_hvg |-> 0]
NoData == [obs_names |-> <<>>, n_vars |-> 0, obs |-> {}, obsm |-> <<>>,
           uns |-> {}, obsp |-> {}]
NoLabel == [given |-> FALSE, codes |-> <<>>]
NoFile == [state |-> "absent", data |-> NoData]
OldFile == [state |-> "old", data |-> NoData]

-----------------------------------------------------------------------------
(* The configuration *)

FindLatentRepresentationsConfig ==
    [annotation : {"None", "layer_guess"},
     hierarchically : BOOLEAN,
     input_pca : BOOLEAN,
     n_comps : NCompsValues,
     feat_cell : FeatCellValues,
     epochs : {300},
     n_neighbors : {11},
     n_nodes : {0}]

Hyperparameters == {"annotation", "hierarchically", "input_pca", "n_comps",
                    "feat_cell", "epochs", "n_neighbors"}

-----------------------------------------------------------------------------
(* The data-frame and dataset operations the run uses *)

\* adata[~pd.isnull(adata.obs[annotation]), :]  (line 144)
DropNull(names) == SelectSeq(names, LAMBDA c : input[c] # NA)

\* adata.obs[annotation].value_counts()  (line 145)
value_counts(names) ==
    [g \in {input[c] : c \in Range(names)} |->
        Cardinality({k \in DOMAIN names : input[names[k]] = g})]

\* num[num >= 30].index.to_list()  (line 146)
\* (variant: groups of more than 30 cells only)
LargeGroupsStrict(num) == {g \in DOMAIN num : num[g] > MinCells}
LargeGroups(num) == {g \in DOMAIN num : num[g] >= MinCells}

\* adata[adata.obs[annotation].isin(...),]  (line 146)
\* (variant: no group is removed)
KeepEveryGroup(names, keep) == names
KeepGroups(names, keep) == SelectSeq(names, LAMBDA c : input[c] \in keep)

\* LabelEncoder: a class is encoded by its rank among the sorted classes
\* (lines 148-151)
ClassCode(g) == (CHOOSE k \in DOMAIN Classes : Classes[k] = g) - 1
LabelEncode(names) == [k \in DOMAIN names |-> ClassCode(input[names[k]])]

\* adata.obs[annotation].unique(): the values in order of first appearance
\* (line 175)
RECURSIVE unique(_)
unique(names) ==
    IF names = <<>> THEN <<>>
    ELSE <<input[Head(names)]>>
         \o unique(SelectSeq(Tail(names), LAMBDA c : input[c] # input[Head(names)]))

\* adata[adata.obs[annotation] == ct, :]  (line 176)
SelectGroup(names, g) == SelectSeq(names, LAMBDA c : input[c] = g)

\* pd.DataFrame(matrix): the rows under the default index 0..n-1
DataFrame(matrix) == [index |-> [k \in DOMAIN matrix |-> k - 1], vals |-> matrix]

\* df.index = names  (lines 188, 189)
SetIndex(df, names) == [df EXCEPT !.index = names]

\* pd.concat((a, b), axis=0)  (lines 191, 192)
concat(a, b) == [index |-> a.index \o b.index, vals |-> a.vals \o b.vals]

\* df.loc[names,] raises KeyError when a name is not in the index
HasAll(df, names) == Range(names) \subseteq Range(df.index)

\* df.loc[names,]: for each name in turn, the rows carrying it
RECURSIVE loc(_, _)
loc(df, names) ==
    IF names = <<>> THEN <<>>
    ELSE LET hits == SelectSeq([k \in DOMAIN df.index |-> k],
                               LAMBDA k : df.index[k] = Head(names))
         IN  [j \in DOMAIN hits |-> df.vals[hits[j]]] \o loc(df, Tail(names))

-----------------------------------------------------------------------------
(* Latent_Representation_Finder *)

\* __init__ (lines 90-103): copies the data and selects n_top_genes =
\* Params.feat_cell highly variable genes among the genes of the dataset
Latent_Representation_Finder(who, names, Params, n_genes) ==
    [who |-> who, obs_names |-> names,
     n_top_genes |-> Params.feat_cell,
     n_hvg |-> Min(Params.feat_cell, n_genes)]

\* node_X.shape after lines 111-114
FeatureShape(self, Params) ==
    <<Len(self.obs_names),
      IF Params.input_pca THEN Params.n_comps ELSE self.n_hvg>>

\* Run_GNN_VAE, lines 116-118: the configuration after the call
UpdateInputShape(self, Params) ==
    [Params EXCEPT !.n_nodes = FeatureShape(self, Params)[1],
                   !.feat_cell = FeatureShape(self, Params)[2]]

\* Run_GNN_VAE, line 125: one latent row per cell of the finder's data
GetLatent(self) ==
    [k \in DOMAIN self.obs_names |-> <<"GVAE", self.who, self.obs_names[k]>>]

\* Run_PCA (lines 127-129)
Run_PCA(self) ==
    [k \in DOMAIN self.obs_names |-> <<"PCA", self.who, self.obs_names[k]>>]

\* sc.tl.umap on the neighbours of obsm[name] (lines 164-165)
Umap(ad, name) == [k \in DOMAIN ad.obs_names |-> <<"UMAP", name, ad.obs_names[k]>>]

-----------------------------------------------------------------------------
(* run_find_latent_representation *)

Init ==
    /\ pc = "enter"
    /\ args \in FindLatentRepresentationsConfig
    /\ entry_args = args
    /\ num_features = 0
    /\ \E bs \in BlockSeqs : input = Expand(bs)
    /\ adata \in {[NoData EXCEPT !.n_vars = g] : g \in GeneCounts}
    /\ label = NoLabel
    /\ latent_rep = NoFinder
    /\ latent_GVAE = <<>>
    /\ latent_PCA = <<>>
    /\ groups = <<>>
    /\ ct = "none"
    /\ adata_part = <<>>
    /\ latent_GVAE_part = NoFrame
    /\ latent_PCA_part = NoFrame
    /\ GVAE_all = NoFrame
    /\ PCA_all = NoFrame
    /\ outfile \in {NoFile, OldFile}
    /\ calls = <<>>
    /\ failedAt = "none"

Step(from, to) == pc = from /\ pc' = to

\* lines 133-135
Enter ==
    /\ Step("enter", "load")
    /\ num_features' = args.feat_cell
    /\ UNCHANGED <<args, entry_args, input, adata, label, latent_rep, latent_GVAE,
                   latent_PCA, groups, ct, adata_part, latent_GVAE_part,
                   latent_PCA_part, GVAE_all, PCA_all, outfile, calls, failedAt>>

\* lines 138-140: the dataset of the input file, one row per cell
ReadInput ==
    /\ Step("load", "annotation")
    /\ adata' = [adata EXCEPT !.obs_names = [k \in DOMAIN input |-> k],
                              !.obs = {"layer_guess"}]
    /\ UNCHANGED <<args, entry_args, num_features, input, label, latent_rep,
                   latent_GVAE, latent_PCA, groups, ct, adata_part,
                   latent_GVAE_part, latent_PCA_part, GVAE_all, PCA_all, outfile,
                   calls, failedAt>>

\* lines 142-151: with an annotation column
FilterAndEncode ==
    /\ Step("annotation", "finder")
    /\ args.annotation # "None"
    /\ LET notnull == DropNull(adata.obs_names)
           num == value_counts(notnull)
           kept == KeepGroups(notnull, LargeGroups(num))
       IN  /\ adata' = [adata EXCEPT !.obs_names = kept,
                                     !.obs = @ \cup {"categorical_label"}]
           /\ label' = [given |-> TRUE, codes |-> LabelEncode(kept)]
    /\ UNCHANGED <<args, entry_args, num_features, input, latent_rep, latent_GVAE,
                   latent_PCA, groups, ct, adata_part, latent_GVAE_part,
                   latent_PCA_part, GVAE_all, PCA_all, outfile, calls, failedAt>>

\* lines 152-153: without one
NoAnnotation ==
    /\ Step("annotation", "finder")
    /\ args.annotation = "None"
    /\ label' = NoLabel
    /\ UNCHANGED <<args, entry_args, num_features, input, adata, latent_rep,
                   latent_GVAE, latent_PCA, groups, ct, adata_part,
                   latent_GVAE_part, latent_PCA_part, GVAE_all, PCA_all, outfile,
                   calls, failedAt>>

Called(op, self, lab) ==
    Append(calls, [op |-> op, who |-> self.who, rows |-> Len(self.obs_names),
                   label |-> lab, feat_cell |-> self.n_top_genes])

\* line 155
NewFinder ==
    /\ Step("finder", "gvae")
    /\ latent_rep' = Latent_Representation_Finder("all", adata.obs_names, args,
                                                  adata.n_vars)
    /\ calls' = Called("init", latent_rep', "-")
    /\ UNCHANGED <<args, entry_args, num_features, input, adata, label,
                   latent_GVAE, latent_PCA, groups, ct, adata_part,
                   latent_GVAE_part, latent_PCA_part, GVAE_all, PCA_all, outfile,
                   failedAt>>

\* line 156: the graph and the training need at least one cell
RunGVAE ==
    /\ Step("gvae", "pca")
    /\ Len(latent_rep.obs_names) > 0
    /\ args' = UpdateInputShape(latent_rep, args)
    /\ latent_GVAE' = GetLatent(latent_rep)
    /\ calls' = Called("Run_GNN_VAE", latent_rep,
                       IF label.given THEN "labels" ELSE "None")
    /\ UNCHANGED <<entry_args, num_features, input, adata, label, latent_rep,
                   latent_PCA, groups, ct, adata_part, latent_GVAE_part,
                   latent_PCA_part, GVAE_all, PCA_all, outfile, failedAt>>

\* line 157
RunPCA ==
    /\ Step("pca", "attach")
    /\ latent_PCA' = Run_PCA(latent_rep)
    /\ calls' = Called("Run_PCA", latent_rep, "-")
    /\ UNCHANGED <<args, entry_args, num_features, input, adata, label, latent_rep,
                   latent_GVAE, groups, ct, adata_part, latent_GVAE_part,
                   latent_PCA_part, GVAE_all, PCA_all, outfile, failedAt>>

\* lines 160-161
AttachLatent ==
    /\ Step("attach", "umap")
    /\ adata' = [adata EXCEPT !.obsm = ("latent_GVAE" :> latent_GVAE)
                                       @@ ("latent_PCA" :> latent_PCA) @@ @]
    /\ UNCHANGED <<args, entry_args, num_features, input, label, latent_rep,
                   latent_GVAE, latent_PCA, groups, ct, adata_part,
                   latent_GVAE_part, latent_PCA_part, GVAE_all, PCA_all, outfile,
                   calls, failedAt>>

\* lines 163-166: both passes of the loop over the two names
RunUmap ==
    /\ Step("umap", "hierarchy")
    /\ adata' = [adata EXCEPT
            !.obsm = ("X_umap" :> Umap(adata, "latent_PCA"))
                     @@ ("X_umap_latent_GVAE" :> Umap(adata, "latent_GVAE"))
                     @@ ("X_umap_latent_PCA" :> Umap(adata, "latent_PCA")) @@ @,
            !.uns = @ \cup {"neighbors", "umap"},
            !.obsp = @ \cup {"distances", "connectivities"}]
    /\ UNCHANGED <<args, entry_args, num_features, input, label, latent_rep,
                   latent_GVAE, latent_PCA, groups, ct, adata_part,
                   latent_GVAE_part, latent_PCA_part, GVAE_all, PCA_all, outfile,
                   calls, failedAt>>

\* line 170
\* (variant: either setting is enough)
HierarchicalEither(Params) == Params.annotation # "None" \/ Params.hierarchically
HierarchicalActive(Params) == Params.annotation # "None" /\ Params.hierarchically

\* line 183
\* (variant: strictly fewer rows than components)
UsePCAStrict(n_rows, Params) == n_rows < Params.n_comps
UsePCAForGroup(n_rows, Params) == n_rows <= Params.n_comps

\* line 194
\* (variant: the field is left as the last training set it)
KeepFeatCell(Params, saved) == Params
ResetFeatCell(Params, saved) == [Params EXCEPT !.feat_cell = saved]

\* lines 170-175: the loop is entered over the distinct annotation values
EnterHierarchy ==
    /\ Step("hierarchy", "loop")
    /\ HierarchicalActive(args)
    /\ PCA_all' = NoFrame
    /\ GVAE_all' = NoFrame
    /\ groups' = unique(adata.obs_names)
    /\ UNCHANGED <<args, entry_args, num_features, input, adata, label, latent_rep,
                   latent_GVAE, latent_PCA, ct, adata_part, latent_GVAE_part,
                   latent_PCA_part, outfile, calls, failedAt>>

\* line 170, condition false
SkipHierarchy ==
    /\ Step("hierarchy", "save")
    /\ ~HierarchicalActive(args)
    /\ UNCHANGED <<args, entry_args, num_features, input, adata, label, latent_rep,
                   latent_GVAE, latent_PCA, groups, ct, adata_part,
                   latent_GVAE_part, latent_PCA_part, GVAE_all, PCA_all, outfile,
                   calls, failedAt>>

\* lines 175-177: the next value of the loop
NextGroup ==
    /\ Step("loop", "part_finder")
    /\ groups # <<>>
    /\ ct' = Head(groups)
    /\ groups' = Tail(groups)
    /\ adata_part' = SelectGroup(adata.obs_names, Head(groups))
    /\ UNCHANGED <<args, entry_args, num_features, input, adata, label, latent_rep,
                   latent_GVAE, latent_PCA, latent_GVAE_part, latent_PCA_part,
                   GVAE_all, PCA_all, outfile, calls, failedAt>>

\* line 175, loop exhausted
LoopDone ==
    /\ Step("loop", "save")
    /\ groups = <<>>
    /\ UNCHANGED <<args, entry_args, num_features, input, adata, label, latent_rep,
                   latent_GVAE, latent_PCA, groups, ct, adata_part,
                   latent_GVAE_part, latent_PCA_part, GVAE_all, PCA_all, outfile,
                   calls, failedAt>>

\* line 180
PartFinder ==
    /\ Step("part_finder", "part_pca")
    /\ latent_rep' = Latent_Representation_Finder(ct, adata_part, args, adata.n_vars)
    /\ calls' = Called("init", latent_rep', "-")
    /\ UNCHANGED <<args, entry_args, num_features, input, adata, label,
                   latent_GVAE, latent_PCA, groups, ct, adata_part,
                   latent_GVAE_part, latent_PCA_part, GVAE_all, PCA_all, outfile,
                   failedAt>>

\* line 182
PartPCA ==
    /\ Step("part_pca", "part_gvae")
    /\ latent_PCA_part' = DataFrame(Run_PCA(latent_rep))
    /\ calls' = Called("Run_PCA", latent_rep, "-")
    /\ UNCHANGED <<args, entry_args, num_features, input, adata, label, latent_rep,
                   latent_GVAE, latent_PCA, groups, ct, adata_part,
                   latent_GVAE_part, GVAE_all, PCA_all, outfile, failedAt>>

\* lines 183-184
PartSubstitute ==
    /\ Step("part_gvae", "part_index")
    /\ UsePCAForGroup(Len(adata_part), args)
    /\ latent_GVAE_part' = latent_PCA_part
    /\ UNCHANGED <<args, entry_args, num_features, input, adata, label, latent_rep,
                   latent_GVAE, latent_PCA, groups, ct, adata_part,
                   latent_PCA_part, GVAE_all, PCA_all, outfile, calls, failedAt>>

\* lines 185-186
PartGVAE ==
    /\ Step("part_gvae", "part_index")
    /\ ~UsePCAForGroup(Len(adata_part), args)
    /\ args' = UpdateInputShape(latent_rep, args)
    /\ latent_GVAE_part' = DataFrame(GetLatent(latent_rep))
    /\ calls' = Called("Run_GNN_VAE", latent_rep, "None")
    /\ UNCHANGED <<entry_args, num_features, input, adata, label, latent_rep,
                   latent_GVAE, latent_PCA, groups, ct, adata_part,
                   latent_PCA_part, GVAE_all, PCA_all, outfile, failedAt>>

\* lines 188-189
PartIndex ==
    /\ Step("part_index", "part_concat")
    /\ latent_GVAE_part' = SetIndex(latent_GVAE_part, adata_part)
    /\ latent_PCA_part' = SetIndex(latent_PCA_part, adata_part)
    /\ UNCHANGED <<args, entry_args, num_features, input, adata, label, latent_rep,
                   latent_GVAE, latent_PCA, groups, ct, adata_part, GVAE_all,
                   PCA_all, outfile, calls, failedAt>>

\* lines 191-192
PartConcat ==
    /\ Step("part_concat", "part_reset")
    /\ GVAE_all' = concat(GVAE_all, latent_GVAE_part)
    /\ PCA_all' = concat(PCA_all, latent_PCA_part)
    /\ UNCHANGED <<args, entry_args, num_features, input, adata, label, latent_rep,
                   latent_GVAE, latent_PCA, groups, ct, adata_part,
                   latent_GVAE_part, latent_PCA_part, outfile, calls, failedAt>>

\* line 194
PartReset ==
    /\ Step("part_reset", "part_reindex")
    /\ args' = ResetFeatCell(args, num_features)
    /\ UNCHANGED <<entry_args, num_features, input, adata, label, latent_rep,
                   latent_GVAE, latent_PCA, groups, ct, adata_part,
                   latent_GVAE_part, latent_PCA_part, GVAE_all, PCA_all, outfile,
                   calls, failedAt>>

\* lines 196-197, inside the loop body: every row name of adata is looked up
\* in the frames accumulated so far
CanReindex ==
    /\ HasAll(GVAE_all, adata.obs_names)
    /\ HasAll(PCA_all, adata.obs_names)
    /\ Len(loc(GVAE_all, adata.obs_names)) = Len(adata.obs_names)
    /\ Len(loc(PCA_all, adata.obs_names)) = Len(adata.obs_names)

PartReindex ==
    /\ Step("part_reindex", "loop")
    /\ CanReindex
    /\ adata' = [adata EXCEPT
            !.obsm = ("latent_GVAE_hierarchy" :> loc(GVAE_all, adata.obs_names))
                     @@ ("latent_PCA_hierarchy" :> loc(PCA_all, adata.obs_names))
                     @@ @]
    /\ UNCHANGED <<args, entry_args, num_features, input, label, latent_rep,
                   latent_GVAE, latent_PCA, groups, ct, adata_part,
                   latent_GVAE_part, latent_PCA_part, GVAE_all, PCA_all, outfile,
                   calls, failedAt>>

\* lines 196-197: a row name missing from the frames raises KeyError
PartReindexKeyError ==
    /\ Step("part_reindex", "aborted")
    /\ ~CanReindex
    /\ failedAt' = "part_reindex"
    /\ UNCHANGED <<args, entry_args, num_features, input, adata, label, latent_rep,
                   latent_GVAE, latent_PCA, groups, ct, adata_part,
                   latent_GVAE_part, latent_PCA_part, GVAE_all, PCA_all, outfile,
                   calls>>

\* line 199: the file at output_hdf5_path is opened for writing
BeginWrite ==
    /\ Step("save", "writing")
    /\ outfile' = [state |-> "partial", data |-> NoData]
    /\ UNCHANGED <<args, entry_args, num_features, input, adata, label, latent_rep,
                   latent_GVAE, latent_PCA, groups, ct, adata_part,
                   latent_GVAE_part, latent_PCA_part, GVAE_all, PCA_all, calls,
                   failedAt>>

\* line 199: the last element of the dataset has been written
FinishWrite ==
    /\ Step("writing", "done")
    /\ outfile' = [state |-> "complete", data |-> adata]
    /\ UNCHANGED <<args, entry_args, num_features, input, adata, label, latent_rep,
                   latent_GVAE, latent_PCA, groups, ct, adata_part,
                   latent_GVAE_part, latent_PCA_part, GVAE_all, PCA_all, calls,
                   failedAt>>

\* The steps that call out of the module and may raise; nothing in
\* run_find_latent_representation catches an exception.  At "part_gvae"
\* only the else branch (line 186) makes a call.
MayRaise ==
    \/ pc \in {"load", "finder", "gvae", "pca", "umap", "part_finder",
               "part_pca", "save", "writing"}
    \/ pc = "part_gvae" /\ ~UsePCAForGroup(Len(adata_part), args)

Raise ==
    /\ MayRaise
    /\ pc' = "aborted"
    /\ failedAt' = pc
    /\ UNCHANGED <<args, entry_args, num_features, input, adata, label, latent_rep,
                   latent_GVAE, latent_PCA, groups, ct, adata_part,
                   latent_GVAE_part, latent_PCA_part, GVAE_all, PCA_all, outfile,
                   calls>>

Next ==
    \/ Enter
    \/ ReadInput
    \/ FilterAndEncode
    \/ NoAnnotation
    \/ NewFinder
    \/ RunGVAE
    \/ RunPCA
    \/ AttachLatent
    \/ RunUmap
    \/ EnterHierarchy
    \/ SkipHierarchy
    \/ NextGroup
    \/ LoopDone
    \/ PartFinder
    \/ PartPCA
    \/ PartSubstitute
    \/ PartGVAE
    \/ PartIndex
    \/ PartConcat
    \/ PartReset
    \/ PartReindex
    \/ PartReindexKeyError
    \/ BeginWrite
    \/ FinishWrite
    \/ Raise

Spec == Init /\ [][Next]_vars

-----------------------------------------------------------------------------
(* Properties *)

GroupSize(g) == Cardinality({i \in DOMAIN input : input[i] = g})
BigGroups == {g \in Range(input) \ {NA} : GroupSize(g) >= MinCells}
RetainedCells == LET big == BigGroups IN {i \in DOMAIN input : input[i] \in big}
GroupsOf(names) == {input[c] : c \in Range(names)}
RowsOf(names, g) == Cardinality({k \in DOMAIN names : input[names[k]] = g})
Increasing(rows) == \A j, k \in DOMAIN rows : j < k => rows[j] < rows[k]
WithAnnotation == entry_args.annotation # "None"
HierarchicalRun == WithAnnotation /\ entry_args.hierarchically
Filtered == pc \notin {"enter", "load", "annotation"} /\ failedAt # "load"
CallsOf(op) == {k \in DOMAIN calls : calls[k].op = op}
MainKeys == {"latent_GVAE", "latent_PCA", "X_umap_latent_GVAE", "X_umap_latent_PCA"}
HierarchyKeys == {"latent_GVAE_hierarchy", "latent_PCA_hierarchy"}

C2_SameRowsAsInput ==
    pc = "done" => outfile.data.obs_names = [k \in DOMAIN input |-> k]

\* C2 (amended): the written dataset is complete and has, in input order,
\* exactly the cells the annotation filter retains (all cells without an
\* annotation column); it carries the four embedding entries, and every
\* embedding has one row per written cell, row k belonging to cell k.
C2_WrittenRowsAreRetainedRows ==
    pc = "done" =>
      LET out == outfile.data IN
        /\ outfile.state = "complete"
        /\ Increasing(out.obs_names)
        /\ Range(out.obs_names) =
              IF WithAnnotation THEN RetainedCells
              ELSE DOMAIN input
        /\ MainKeys \subseteq DOMAIN out.obsm
        /\ DOMAIN out.obsm \subseteq MainKeys \cup HierarchyKeys \cup {"X_umap"}
        /\ out.obs = {"layer_guess"}
                     \cup (IF WithAnnotation THEN {"categorical_label"} ELSE {})
        /\ \A key \in DOMAIN out.obsm :
              /\ Len(out.obsm[key]) = Len(out.obs_names)
              /\ \A k \in DOMAIN out.obs_names :
                    out.obsm[key][k][3] = out.obs_names[k]

\* a completed run whose filter removed some cell
C2_Witness ==
    /\ pc = "done"
    /\ WithAnnotation
    /\ Len(outfile.data.obs_names) < Len(input)
    /\ Len(outfile.data.obs_names) > 0

\* C3: a completed run has the four embedding entries, and the two hierarchy
\* entries exactly when an annotation column is given and the hierarchical
\* flag is set; otherwise no finder is ever built for a group and no
\* hierarchy entry is ever attached.
C3_HierarchyOnlyWhenBothSet ==
    /\ pc = "done" =>
         /\ MainKeys \subseteq DOMAIN outfile.data.obsm
         /\ \A key \in HierarchyKeys :
               key \in DOMAIN outfile.data.obsm <=> HierarchicalRun
    /\ ~HierarchicalRun =>
         /\ \A k \in DOMAIN calls : calls[k].who = "all"
         /\ HierarchyKeys \cap DOMAIN adata.obsm = {}

\* a completed hierarchical run, with both hierarchy entries written
C3_Witness ==
    /\ pc = "done"
    /\ HierarchicalRun
    /\ HierarchyKeys \subseteq DOMAIN outfile.data.obsm

GroupDecided == pc \in {"part_index", "part_concat", "part_reset", "part_reindex"}
GVAECallsFor(g) == {k \in CallsOf("Run_GNN_VAE") : calls[k].who = g}

\* C4: once the loop has decided a group, a group of at most n_comps rows has
\* had no Run_GNN_VAE call and its GVAE frame is its PCA frame (values and row
\* labels); a larger group has had exactly one call, with label None.
C4_SmallGroupTakesPCA ==
    GroupDecided =>
      IF Len(adata_part) <= entry_args.n_comps
      THEN /\ GVAECallsFor(ct) = {}
           /\ latent_GVAE_part = latent_PCA_part
           /\ Len(latent_GVAE_part.vals) = Len(adata_part)
      ELSE /\ Cardinality(GVAECallsFor(ct)) = 1
           /\ \A k \in GVAECallsFor(ct) : calls[k].label = "None"
           /\ latent_GVAE_part.vals = GetLatent(latent_rep)

\* a group of exactly n_comps rows, after its frames were labelled
C4_Witness ==
    /\ pc = "part_concat"
    /\ Len(adata_part) = entry_args.n_comps
    /\ latent_GVAE_part.index = adata_part
    /\ latent_GVAE_part = latent_PCA_part

\* what the group of cell c computes for it on each path
GroupPCA(c) == <<"PCA", input[c], c>>
GroupGVAE(c) ==
    IF RowsOf(adata.obs_names, input[c]) <= entry_args.n_comps
    THEN GroupPCA(c) ELSE <<"GVAE", input[c], c>>

\* C5: a hierarchical run, with any number of retained groups, gets through
\* the reassembly, and then both hierarchy matrices have one row per cell of
\* the dataset, row i holding what the cell's own group computed for cell i.
C5_ReassemblyCompletes ==
    HierarchicalRun =>
      /\ failedAt # "part_reindex"
      /\ pc \in {"save", "writing", "done"} =>
           /\ HierarchyKeys \subseteq DOMAIN adata.obsm
           /\ adata.obsm["latent_GVAE_hierarchy"] =
                 [k \in DOMAIN adata.obs_names |-> GroupGVAE(adata.obs_names[k])]
           /\ adata.obsm["latent_PCA_hierarchy"] =
                 [k \in DOMAIN adata.obs_names |-> GroupPCA(adata.obs_names[k])]

\* C6: when Run_GNN_VAE raises, Run_PCA has run, or still runs, on the same
\* finder; the run being over, it has run.
C6_PCAAfterGVAEFailure ==
    failedAt \in {"gvae", "part_gvae"} =>
      \E k \in CallsOf("Run_PCA") : calls[k].who = latent_rep.who

\* C7: an aborted run leaves the output file absent, unchanged or complete.
C7_NoCorruptOutput ==
    pc = "aborted" => outfile.state \in {"absent", "old", "complete"}

\* C8: every finder construction reads feat_cell with the value it had when
\* the run was entered.
C8_FeatCellRestoredBeforeRead ==
    \A k \in CallsOf("init") : calls[k].feat_cell = entry_args.feat_cell

IterationEnded ==
    \/ pc = "part_reindex"
    \/ pc = "aborted" /\ failedAt = "part_reindex"
    \/ pc = "loop" /\ ct # "none"

\* C9: at the end of a group iteration feat_cell is the value saved in
\* num_features on entry, whichever branch the group took, and no other
\* hyperparameter has been changed.
C9_FeatCellResetPerGroup ==
    /\ IterationEnded =>
         /\ args.feat_cell = num_features
         /\ num_features = entry_args.feat_cell
    /\ \A h \in Hyperparameters \ {"feat_cell"} : args[h] = entry_args[h]

\* the end of an iteration whose group ran Run_GNN_VAE, which changed feat_cell
C9_Witness ==
    /\ pc = "part_reindex"
    /\ GVAECallsFor(ct) # {}
    /\ FeatureShape(latent_rep, args)[2] # num_features
    /\ args.feat_cell = num_features

\* C10: the reindex by the full row index is made only when no group is left
\* to process.
C10_ReindexAfterAllGroups ==
    pc = "part_reindex" => groups = <<>>

====
